---- MODULE Spec2Model ----
(***************************************************************************)
(* Model of bigg/experiments/sat_graphs/main.py: the graph loader          *)
(* (load_graphs), the DIMACS CNF writer (LCG_to_sat), the edge             *)
(* canonicalizer (get_ordered_edges), the evaluation loop and the          *)
(* training loop of the __main__ block.                                    *)
(*                                                                         *)
(* Each component has its own specification over its own variables; the   *)
(* variables of the other components stay at their initial value.          *)
(***************************************************************************)
EXTENDS Integers, Sequences, FiniteSets, TLC

VARIABLES
    sat_graph,    \* LCG_to_sat: the graph argument
    sat_num_var,  \* LCG_to_sat: the num_var argument
    sat_pc,       \* "build" while the input graph is put together, then "done"
    sat_out,      \* what the call left behind: the file written, or the error
    edge_graph,   \* get_ordered_edges: the graph argument g
    edge_offset,  \* get_ordered_edges: the offset argument
    edge_pc,      \* "build", then "once" and "twice": applications done
    edge_out1,    \* get_ordered_edges(g, offset)
    edge_out2,    \* get_ordered_edges(graph built from edge_out1, offset)
    load_graph_pkl, \* load_graphs: the records of the graph file
    load_stats_pkl, \* load_graphs: the list pickled in the stats file
    load_pos,     \* records of the graph file read so far
    load_graphs,  \* the local list graphs
    load_stats,   \* the local list stats
    load_i,       \* position of the loop over zip(graphs, stats)
    load_pc,      \* "read", "stats", "assert", "insert", "returned", "AssertionError"
    treelib,      \* the calls TreeLib.InsertGraph has received, in order
    load_result,  \* the value returned
    tr_cfg,       \* cmd_args: num_epochs, epoch_save, accum_grad, grad_clip
    tr_pc,        \* position in the training loop
    tr_epoch,     \* the loop variable epoch
    tr_idx,       \* the loop variable idx
    tr_grad,      \* the gradient buffers: the compute steps accumulated in them
    tr_params,    \* the parameter state: the optimizer steps applied to it
    tr_files,     \* save_dir: file name -> the parameter state saved in it
    tr_log,       \* the calls made so far: backward, clip, step, zero_grad, save
    ev_left,      \* evaluation: graphs of zip(test_graphs, stats) not yet reached
    ev_g_idx,     \* evaluation: the counter g_idx
    ev_files,     \* evaluation: names of the CNF files written, in order
    ev_last,      \* evaluation: what the last turn of the loop worked on and did
    ev_pc         \* "loop", "exited", "ZeroDivisionError", "AssertionError"

satVars == <<sat_graph, sat_num_var, sat_pc, sat_out>>

edgeVars == <<edge_graph, edge_offset, edge_pc, edge_out1, edge_out2>>

loadVars == <<load_graph_pkl, load_stats_pkl, load_pos, load_graphs, load_stats,
              load_i, load_pc, treelib, load_result>>

trainVars == <<tr_cfg, tr_pc, tr_epoch, tr_idx, tr_grad, tr_params, tr_files, tr_log>>

evalVars == <<ev_left, ev_g_idx, ev_files, ev_last, ev_pc>>

vars == <<satVars, edgeVars, loadVars, trainVars, evalVars>>

notSat == <<edgeVars, loadVars, trainVars, evalVars>>
notEdge == <<satVars, loadVars, trainVars, evalVars>>
notLoad == <<satVars, edgeVars, trainVars, evalVars>>
notTrain == <<satVars, edgeVars, loadVars, evalVars>>
notEval == <<satVars, edgeVars, loadVars, trainVars>>

(***************************************************************************)
(* Bounds of the model.                                                    *)
(***************************************************************************)
MaxVar == 2       \* num_var ranges over 0..MaxVar
MaxEdges == 2     \* edges put into an input graph
MaxIso == 1       \* add_node calls on an input graph
MaxNode == 3      \* get_ordered_edges: the nodes of g are 0..MaxNode
MaxOffset == 2    \* get_ordered_edges: offset ranges over -1..MaxOffset
MaxGraphs == 3    \* load_graphs: records in the graph file, entries of the stats list
MaxEpochs == 2    \* training: num_epochs ranges over 0..MaxEpochs
MaxSteps == 4     \* training: epoch_save ranges over 0..MaxSteps
MaxAccum == 2     \* training: accum_grad ranges over 1..MaxAccum
MaxTest == 2      \* evaluation: number of test graphs

(***************************************************************************)
(* Sequences helpers.                                                      *)
(***************************************************************************)
Range(s) == {s[i] : i \in 1..Len(s)}

(***************************************************************************)
(* networkx.Graph as the program uses it: `nodes` is the node list in      *)
(* insertion order (graph.nodes()), adj[n] the neighbours of n in          *)
(* insertion order (graph.neighbors(n)).  Both are dictionaries in         *)
(* networkx: inserting a key that is present keeps its position.           *)
(***************************************************************************)
EmptyGraph == [nodes |-> <<>>, adj |-> <<>>]

add_node(G, n) ==
    IF n \in Range(G.nodes) THEN G
    ELSE [nodes |-> Append(G.nodes, n),
          adj   |-> [x \in DOMAIN G.adj \cup {n} |->
                        IF x = n THEN <<>> ELSE G.adj[x]]]

AdjInsert(nbrs, v) == IF v \in Range(nbrs) THEN nbrs ELSE Append(nbrs, v)

add_edge(G, u, v) ==
    LET G1 == add_node(add_node(G, u), v)
        A1 == [G1.adj EXCEPT ![u] = AdjInsert(@, v)]
        A2 == [A1 EXCEPT ![v] = AdjInsert(@, u)]
    IN [nodes |-> G1.nodes, adj |-> A2]

RECURSIVE add_edges_from(_, _)
add_edges_from(G, es) ==
    IF es = <<>> THEN G
    ELSE add_edges_from(add_edge(G, Head(es)[1], Head(es)[2]), Tail(es))

neighbors(G, n) == G.adj[n]

(***************************************************************************)
(* LCG_to_sat(graph, save_name, num_var).                                  *)
(*                                                                         *)
(* A clause line is the sequence of its integer tokens, the terminating 0  *)
(* included.  A failed assert ends the call before the file is opened.     *)
(***************************************************************************)
AssertFailed == [ok |-> FALSE, clause |-> <<>>]

\* lines 66-70: the token of one neighbour, or the failed assert
LitToken(lit, num_var) ==
    IF lit < num_var
    THEN [ok |-> TRUE, tok |-> lit + 1]
    ELSE IF lit < 2 * num_var
         THEN [ok |-> TRUE, tok |-> -(lit - num_var + 1)]
         ELSE [ok |-> FALSE, tok |-> 0]

\* lines 64-71: the inner loop over the neighbours, then the "0\n"
RECURSIVE ClauseLine(_, _, _)
ClauseLine(neighbours, num_var, clause) ==
    IF neighbours = <<>> THEN [ok |-> TRUE, clause |-> Append(clause, 0)]
    ELSE LET t == LitToken(Head(neighbours), num_var)
         IN IF ~t.ok THEN AssertFailed
            ELSE ClauseLine(Tail(neighbours), num_var, Append(clause, t.tok))

\* lines 62-63 with the test for an empty neighbour list left out
SkipNodeNoEmptyTest(G, node, num_var) == ~(node >= num_var * 2)

\* lines 60-63: the nodes that contribute no clause line
SkipNode(G, node, num_var) ==
    \/ ~(node >= num_var * 2)
    \/ Len(neighbors(G, node)) = 0

\* lines 59-72: the outer loop over the nodes
RECURSIVE Clauses(_, _, _, _)
Clauses(G, nodes, num_var, clauses) ==
    IF nodes = <<>> THEN [ok |-> TRUE, clauses |-> clauses]
    ELSE IF SkipNode(G, Head(nodes), num_var)
         THEN Clauses(G, Tail(nodes), num_var, clauses)
         ELSE LET c == ClauseLine(neighbors(G, Head(nodes)), num_var, <<>>)
              IN IF ~c.ok THEN [ok |-> FALSE, clauses |-> <<>>]
                 ELSE Clauses(G, Tail(nodes), num_var, Append(clauses, c.clause))

\* lines 74-75: the comment line and the "p cnf" line
Header(G, num_var, clauses) ==
    [comment |-> "c generated by G2SAT lcg", format |-> "p cnf",
     num_var |-> num_var, num_clauses |-> Len(clauses)]

NoOutput == [status |-> "none"]

\* lines 56-77: the whole call
LCG_to_sat(G, num_var) ==
    LET r == Clauses(G, G.nodes, num_var, <<>>)
    IN IF ~r.ok THEN [status |-> "AssertionError"]
       ELSE [status |-> "written",
             header |-> Header(G, num_var, r.clauses),
             body   |-> r.clauses]

(***************************************************************************)
(* networkx Graph.edges(): every node n in node order, every neighbour of  *)
(* n in adjacency order, the pair (n, nbr) unless nbr was a node visited   *)
(* before n.  A self-loop is reported once.                                *)
(***************************************************************************)
RECURSIVE EdgesFrom(_, _, _)
EdgesFrom(G, nodes, seen) ==
    IF nodes = <<>> THEN <<>>
    ELSE LET n == Head(nodes)
             mine == SelectSeq(G.adj[n], LAMBDA nbr : nbr \notin seen)
         IN [i \in 1..Len(mine) |-> <<n, mine[i]>>]
            \o EdgesFrom(G, Tail(nodes), seen \cup {n})

edges(G) == EdgesFrom(G, G.nodes, {})

(***************************************************************************)
(* get_ordered_edges(g, offset).                                           *)
(***************************************************************************)
\* lines 82-83 without the swap
OrientEdgeNoSwap(e) == e

\* lines 82-83: the endpoints in ascending order
OrientEdge(e) == IF e[1] > e[2] THEN <<e[2], e[1]>> ELSE e

\* line 84: the offset is taken from the second endpoint
ShiftEdge(e, offset) == <<e[1], e[2] - offset>>

\* list.sort is stable: x goes behind the elements whose key is not larger
RECURSIVE InsertByFirst(_, _)
InsertByFirst(sorted, x) ==
    IF sorted = <<>> THEN <<x>>
    ELSE IF Head(sorted)[1] <= x[1]
         THEN <<Head(sorted)>> \o InsertByFirst(Tail(sorted), x)
         ELSE <<x>> \o sorted

RECURSIVE SortFrom(_, _)
SortFrom(sorted, rest) ==
    IF rest = <<>> THEN sorted
    ELSE SortFrom(InsertByFirst(sorted, Head(rest)), Tail(rest))

\* line 85 left out
SortByFirstMissing(es) == es

\* line 85: true_edges.sort(key=lambda x: x[0])
SortByFirst(es) == SortFrom(<<>>, es)

\* lines 79-86
get_ordered_edges(g, offset) ==
    LET es == edges(g)
        true_edges == [i \in 1..Len(es) |-> ShiftEdge(OrientEdge(es[i]), offset)]
    IN SortByFirst(true_edges)

(***************************************************************************)
(* Specification SpecSat: an input graph is put together with add_node and *)
(* add_edge, then LCG_to_sat runs on it.                                   *)
(***************************************************************************)
SatNodes(nv) == (-1) .. (2 * nv + 1)
SatClauseNodes(nv) == (2 * nv) .. (2 * nv + 1)

NumEdges(G) ==
    Cardinality({e \in SUBSET DOMAIN G.adj :
                   \E u, v \in DOMAIN G.adj : e = {u, v} /\ v \in Range(G.adj[u])})

IdleSat ==
    /\ sat_graph = EmptyGraph
    /\ sat_num_var = 0
    /\ sat_pc = "idle"
    /\ sat_out = NoOutput

IdleEdge ==
    /\ edge_graph = EmptyGraph
    /\ edge_offset = 0
    /\ edge_pc = "idle"
    /\ edge_out1 = <<>>
    /\ edge_out2 = <<>>

IdleLoad ==
    /\ load_graph_pkl = <<>>
    /\ load_stats_pkl = <<>>
    /\ load_pos = 0
    /\ load_graphs = <<>>
    /\ load_stats = <<>>
    /\ load_i = 0
    /\ load_pc = "idle"
    /\ treelib = <<>>
    /\ load_result = <<>>

IdleTrain ==
    /\ tr_cfg = [num_epochs |-> 0, epoch_save |-> 0, accum_grad |-> 1, grad_clip |-> 0]
    /\ tr_pc = "idle"
    /\ tr_epoch = 0
    /\ tr_idx = 0
    /\ tr_grad = {}
    /\ tr_params = <<>>
    /\ tr_files = <<>>
    /\ tr_log = <<>>

IdleEval ==
    /\ ev_left = 0
    /\ ev_g_idx = 0
    /\ ev_files = <<>>
    /\ ev_last = [status |-> "none"]
    /\ ev_pc = "idle"

InitSat ==
    /\ sat_graph = EmptyGraph
    /\ sat_num_var \in 0..MaxVar
    /\ sat_pc = "build"
    /\ sat_out = NoOutput
    /\ IdleEdge
    /\ IdleLoad
    /\ IdleTrain
    /\ IdleEval

\* an edge (literal or any other node, clause node), as line 126 builds them
SatAddEdge ==
    /\ sat_pc = "build"
    /\ NumEdges(sat_graph) < MaxEdges
    /\ \E u \in SatNodes(sat_num_var), v \in SatClauseNodes(sat_num_var) :
          /\ add_edge(sat_graph, u, v) # sat_graph
          /\ sat_graph' = add_edge(sat_graph, u, v)
    /\ UNCHANGED <<sat_num_var, sat_pc, sat_out, notSat>>

\* a clause node without any edge
SatAddNode ==
    /\ sat_pc = "build"
    /\ Len(sat_graph.nodes) - Cardinality({n \in DOMAIN sat_graph.adj :
                                              sat_graph.adj[n] # <<>>}) < MaxIso
    /\ \E n \in SatClauseNodes(sat_num_var) :
          /\ n \notin Range(sat_graph.nodes)
          /\ sat_graph' = add_node(sat_graph, n)
    /\ UNCHANGED <<sat_num_var, sat_pc, sat_out, notSat>>

SatEncode ==
    /\ sat_pc = "build"
    /\ sat_out' = LCG_to_sat(sat_graph, sat_num_var)
    /\ sat_pc' = "done"
    /\ UNCHANGED <<sat_graph, sat_num_var, notSat>>

NextSat == SatAddEdge \/ SatAddNode \/ SatEncode

SpecSat == InitSat /\ [][NextSat]_vars

(***************************************************************************)
(* Properties of LCG_to_sat.                                               *)
(***************************************************************************)
SatWritten == sat_pc = "done" /\ sat_out.status = "written"

\* the clause nodes that have a neighbour, in the order of graph.nodes()
EmittingNodes ==
    SelectSeq(sat_graph.nodes,
              LAMBDA n : n >= 2 * sat_num_var /\ sat_graph.adj[n] # <<>>)

\* what the code writes for the neighbours of the i-th emitting node: one
\* token per neighbour, lit+1 or -(lit-num_var+1), then the terminator 0
LineMatches(i) ==
    LET line == sat_out.body[i]
        nbrs == sat_graph.adj[EmittingNodes[i]]
    IN /\ Len(line) = Len(nbrs) + 1
       /\ line[Len(line)] = 0
       /\ \A k \in 1..Len(nbrs) :
             /\ nbrs[k] < 2 * sat_num_var
             /\ nbrs[k] < sat_num_var => line[k] = nbrs[k] + 1
             /\ nbrs[k] >= sat_num_var => line[k] = -(nbrs[k] - sat_num_var + 1)

\* C1: every clause line of a written file belongs to one clause node with at
\* least one neighbour and holds one token per neighbour of that node, in
\* order: the positive integer lit+1 when lit < num_var, the negative integer
\* -(lit-num_var+1) when num_var <= lit < 2*num_var, and then the
\* terminator 0.
C1_ClauseLines ==
    SatWritten =>
        /\ Len(sat_out.body) = Len(EmittingNodes)
        /\ \A i \in 1..Len(sat_out.body) :
              /\ LineMatches(i)
              /\ \A k \in 1..Len(sat_graph.adj[EmittingNodes[i]]) :
                    IF sat_graph.adj[EmittingNodes[i]][k] < sat_num_var
                    THEN sat_out.body[i][k] > 0
                    ELSE sat_out.body[i][k] < 0

\* the same with the sign asked of the literal indices 0 <= lit only: this
\* much holds of every written file
ClauseLinesOfLiterals ==
    SatWritten =>
        /\ Len(sat_out.body) = Len(EmittingNodes)
        /\ \A i \in 1..Len(sat_out.body) :
              /\ LineMatches(i)
              /\ \A k \in 1..Len(sat_graph.adj[EmittingNodes[i]]) :
                    LET lit == sat_graph.adj[EmittingNodes[i]][k]
                    IN /\ (0 <= lit /\ lit < sat_num_var) => sat_out.body[i][k] > 0
                       /\ lit >= sat_num_var => sat_out.body[i][k] < 0

\* the scenario of the spec: num_var = 2, one clause node joined to the
\* literal nodes 0 and 3 gives the line "1 -2 0" under the header "p cnf 2 1"
ScenarioWritten ==
    /\ SatWritten
    /\ sat_num_var = 2
    /\ sat_graph.nodes = <<0, 4, 3>>
    /\ sat_out.body = << <<1, -2, 0>> >>
    /\ sat_out.header.num_var = 2
    /\ sat_out.header.num_clauses = 1

\* C2: in a written file the header's num_clauses is the number of clause
\* lines of the body, which is the number of clause nodes (index >=
\* 2*num_var) that have a neighbour; a clause node without neighbours adds
\* nothing to either.
C2_HeaderCount ==
    SatWritten =>
        /\ sat_out.header.num_clauses = Len(sat_out.body)
        /\ sat_out.header.num_var = sat_num_var
        /\ Len(sat_out.body) =
              Cardinality({n \in Range(sat_graph.nodes) :
                             n >= 2 * sat_num_var /\ Len(sat_graph.adj[n]) >= 1})
        /\ \A i \in 1..Len(sat_out.body) : Len(sat_out.body[i]) >= 2

\* a file written for a graph that holds a clause node without neighbours
\* next to a clause node with one
C2_Witness ==
    /\ SatWritten
    /\ \E n \in Range(sat_graph.nodes) :
          n >= 2 * sat_num_var /\ sat_graph.adj[n] = <<>>
    /\ sat_out.header.num_clauses = 1

\* some neighbour of a clause node is no literal index
OutOfRangeNeighbour ==
    \E n \in Range(sat_graph.nodes) :
        /\ n >= 2 * sat_num_var
        /\ \E k \in 1..Len(sat_graph.adj[n]) :
              sat_graph.adj[n][k] < 0 \/ sat_graph.adj[n][k] >= 2 * sat_num_var

\* C3: when a neighbour of a clause node lies outside [0, 2*num_var), the
\* call ends in the fatal error and writes no token for it.
C3_OutOfRangeIsFatal ==
    (sat_pc = "done" /\ OutOfRangeNeighbour) => sat_out.status = "AssertionError"

\* what the assert of line 69 does enforce: an index >= 2*num_var is fatal
C3_TooLargeIsFatal ==
    (sat_pc = "done" /\ \E n \in Range(sat_graph.nodes) :
        /\ n >= 2 * sat_num_var
        /\ \E k \in 1..Len(sat_graph.adj[n]) : sat_graph.adj[n][k] >= 2 * sat_num_var)
    => sat_out.status = "AssertionError"

(***************************************************************************)
(* Specification SpecEdges: a graph g is put together, get_ordered_edges   *)
(* runs on it, then a graph is built from the returned list and            *)
(* get_ordered_edges runs on that graph with the same offset.              *)
(***************************************************************************)
InitEdges ==
    /\ edge_graph = EmptyGraph
    /\ edge_offset \in (-1)..MaxOffset
    /\ edge_pc = "build"
    /\ edge_out1 = <<>>
    /\ edge_out2 = <<>>
    /\ IdleSat
    /\ IdleLoad
    /\ IdleTrain
    /\ IdleEval

EdgeAddEdge ==
    /\ edge_pc = "build"
    /\ NumEdges(edge_graph) < MaxEdges
    /\ \E u, v \in 0..MaxNode :
          /\ add_edge(edge_graph, u, v) # edge_graph
          /\ edge_graph' = add_edge(edge_graph, u, v)
    /\ UNCHANGED <<edge_offset, edge_pc, edge_out1, edge_out2, notEdge>>

EdgeCanonicalize ==
    /\ edge_pc = "build"
    /\ edge_out1' = get_ordered_edges(edge_graph, edge_offset)
    /\ edge_pc' = "once"
    /\ UNCHANGED <<edge_graph, edge_offset, edge_out2, notEdge>>

EdgeRecanonicalize ==
    /\ edge_pc = "once"
    /\ edge_out2' = get_ordered_edges(add_edges_from(EmptyGraph, edge_out1),
                                      edge_offset)
    /\ edge_pc' = "twice"
    /\ UNCHANGED <<edge_graph, edge_offset, edge_out1, notEdge>>

NextEdges == EdgeAddEdge \/ EdgeCanonicalize \/ EdgeRecanonicalize

SpecEdges == InitEdges /\ [][NextEdges]_vars

(***************************************************************************)
(* Properties of get_ordered_edges.                                        *)
(***************************************************************************)
EdgeApplied == edge_pc \in {"once", "twice"}

AscendingByFirst(es) == \A i, j \in 1..Len(es) : i < j => es[i][1] <= es[j][1]

\* the edges of g as unordered pairs
EdgeSets(G) ==
    {e \in SUBSET DOMAIN G.adj :
        \E u, v \in DOMAIN G.adj : e = {u, v} /\ v \in Range(G.adj[u])}

SetMin(S) == CHOOSE x \in S : \A y \in S : x <= y
SetMax(S) == CHOOSE x \in S : \A y \in S : x >= y

\* C5 as stated: one pair per edge, u < v in every pair, ascending in u,
\* whatever g and offset are.
C5_StrictlyOrderedPairs ==
    EdgeApplied =>
        /\ Len(edge_out1) = Cardinality(EdgeSets(edge_graph))
        /\ \A i \in 1..Len(edge_out1) : edge_out1[i][1] < edge_out1[i][2]
        /\ AscendingByFirst(edge_out1)

\* C5 amended: one pair per edge, namely (min, max - offset) of its two
\* endpoints, so u <= v + offset in every pair, and u < v when offset <= 0
\* and the edge is no self-loop; the pairs are ascending in u.
C5_OrderedBeforeOffset ==
    EdgeApplied =>
        /\ Len(edge_out1) = Cardinality(EdgeSets(edge_graph))
        /\ Range(edge_out1) =
              {<<SetMin(e), SetMax(e) - edge_offset>> : e \in EdgeSets(edge_graph)}
        /\ \A i \in 1..Len(edge_out1) :
              /\ edge_out1[i][1] <= edge_out1[i][2] + edge_offset
              /\ (edge_offset <= 0
                    /\ {edge_out1[i][1], edge_out1[i][2] + edge_offset}
                           \in EdgeSets(edge_graph)
                    /\ edge_out1[i][1] # edge_out1[i][2] + edge_offset)
                 => edge_out1[i][1] < edge_out1[i][2]
        /\ AscendingByFirst(edge_out1)

\* two edges whose endpoints were swapped and whose order was changed by the
\* sort, under a positive offset
C5_Witness ==
    /\ EdgeApplied
    /\ edge_offset > 0
    /\ Len(edge_out1) = 2
    /\ edges(edge_graph)[1][1] > edges(edge_graph)[1][2]
    /\ edges(edge_graph)[1][2] > edges(edge_graph)[2][1]
    /\ edges(edge_graph)[2][1] < edges(edge_graph)[2][2]

\* C6 as stated: for every g and offset the second application returns the
\* edge set of the first.
C6_IdempotentAnyOffset ==
    edge_pc = "twice" => Range(edge_out2) = Range(edge_out1)

\* C6 amended: with offset = 0 the second application returns the edge set of
\* the first.
C6_IdempotentOffsetZero ==
    (edge_pc = "twice" /\ edge_offset = 0) => Range(edge_out2) = Range(edge_out1)

\* offset 0, two edges, one of them swapped by the first application
C6_Witness ==
    /\ edge_pc = "twice"
    /\ edge_offset = 0
    /\ Len(edge_out1) = 2
    /\ \E i \in 1..2 : edges(edge_graph)[i][1] > edges(edge_graph)[i][2]

(***************************************************************************)
(* load_graphs(graph_pkl, stats_pkl), one action per statement.            *)
(*                                                                         *)
(* A record of the graph file is a pickled graph or bytes pickle cannot    *)
(* load; the bare except of lines 43-44 ends the reading on either the end *)
(* of the file or such a record.                                           *)
(***************************************************************************)
GraphRecords == {"gA", "gB"}
Unreadable == "unreadable"
StatPairs == {<<2, 1>>, <<4, 2>>}

SeqsUpTo(S, n) == UNION {[1..k -> S] : k \in 0..n}

\* line 48 left out
CountsAgreeUnchecked(graphs, stats) == TRUE

\* line 48: assert len(graphs) == len(stats)
CountsAgree(graphs, stats) == Len(graphs) = Len(stats)

\* zip stops at the end of the shorter list
ZipLen(graphs, stats) == IF Len(graphs) <= Len(stats) THEN Len(graphs) ELSE Len(stats)

InitLoad ==
    /\ load_graph_pkl \in SeqsUpTo(GraphRecords \cup {Unreadable}, MaxGraphs)
    /\ load_stats_pkl \in SeqsUpTo(StatPairs, MaxGraphs)
    /\ load_pos = 0
    /\ load_graphs = <<>>
    /\ load_stats = <<>>
    /\ load_i = 0
    /\ load_pc = "read"
    /\ treelib = <<>>
    /\ load_result = <<>>
    /\ IdleSat
    /\ IdleEdge
    /\ IdleTrain
    /\ IdleEval

\* lines 40-45: cp.load returns a graph
LoadReadGraph ==
    /\ load_pc = "read"
    /\ load_pos < Len(load_graph_pkl)
    /\ load_graph_pkl[load_pos + 1] # Unreadable
    /\ load_graphs' = Append(load_graphs, load_graph_pkl[load_pos + 1])
    /\ load_pos' = load_pos + 1
    /\ UNCHANGED <<load_graph_pkl, load_stats_pkl, load_stats, load_i, load_pc,
                   treelib, load_result, notLoad>>

\* lines 41-44: cp.load raises, the loop is left
LoadReadEnd ==
    /\ load_pc = "read"
    /\ \/ load_pos = Len(load_graph_pkl)
       \/ /\ load_pos < Len(load_graph_pkl)
          /\ load_graph_pkl[load_pos + 1] = Unreadable
    /\ load_pc' = "stats"
    /\ UNCHANGED <<load_graph_pkl, load_stats_pkl, load_pos, load_graphs, load_stats,
                   load_i, treelib, load_result, notLoad>>

\* lines 46-47
LoadReadStats ==
    /\ load_pc = "stats"
    /\ load_stats' = load_stats_pkl
    /\ load_pc' = "assert"
    /\ UNCHANGED <<load_graph_pkl, load_stats_pkl, load_pos, load_graphs, load_i,
                   treelib, load_result, notLoad>>

\* line 48
LoadAssert ==
    /\ load_pc = "assert"
    /\ IF CountsAgree(load_graphs, load_stats)
       THEN load_pc' = "insert" /\ load_i' = 1
       ELSE load_pc' = "AssertionError" /\ load_i' = load_i
    /\ UNCHANGED <<load_graph_pkl, load_stats_pkl, load_pos, load_graphs, load_stats,
                   treelib, load_result, notLoad>>

\* lines 50-52: one turn of the loop
LoadInsertGraph ==
    /\ load_pc = "insert"
    /\ load_i <= ZipLen(load_graphs, load_stats)
    /\ LET g == load_graphs[load_i]
           n == load_stats[load_i][1]
           m == load_stats[load_i][2]
       IN treelib' = Append(treelib, [graph |-> g, bipart_stats |-> <<n, m>>])
    /\ load_i' = load_i + 1
    /\ UNCHANGED <<load_graph_pkl, load_stats_pkl, load_pos, load_graphs, load_stats,
                   load_pc, load_result, notLoad>>

\* line 53
LoadReturn ==
    /\ load_pc = "insert"
    /\ load_i > ZipLen(load_graphs, load_stats)
    /\ load_result' = <<load_graphs, load_stats>>
    /\ load_pc' = "returned"
    /\ UNCHANGED <<load_graph_pkl, load_stats_pkl, load_pos, load_graphs, load_stats,
                   load_i, treelib, notLoad>>

NextLoad ==
    \/ LoadReadGraph
    \/ LoadReadEnd
    \/ LoadReadStats
    \/ LoadAssert
    \/ LoadInsertGraph
    \/ LoadReturn

SpecLoad == InitLoad /\ [][NextLoad]_vars

(***************************************************************************)
(* Properties of load_graphs.                                              *)
(***************************************************************************)
\* the graphs the file holds before its first unreadable record
RECURSIVE ReadablePrefix(_)
ReadablePrefix(recs) ==
    IF recs = <<>> \/ Head(recs) = Unreadable THEN <<>>
    ELSE <<Head(recs)>> \o ReadablePrefix(Tail(recs))

\* C4: the call ends in the count-mismatch error with no graph registered,
\* exactly when the number of graphs read differs from the number of
\* stats, or it returns (graphs, stats) of equal length after one
\* InsertGraph call per graph, in load order, each with the stats pair of
\* the same position; no graph is registered before the counts were compared.
C4_LoadOutcome ==
    /\ load_pc = "AssertionError" =>
          /\ treelib = <<>>
          /\ Len(ReadablePrefix(load_graph_pkl)) # Len(load_stats_pkl)
    /\ load_pc = "returned" =>
          /\ load_result = <<ReadablePrefix(load_graph_pkl), load_stats_pkl>>
          /\ Len(load_result[1]) = Len(load_result[2])
          /\ Len(treelib) = Len(load_result[1])
          /\ \A i \in 1..Len(treelib) :
                treelib[i] = [graph |-> load_result[1][i],
                              bipart_stats |-> load_result[2][i]]
    /\ load_pc \in {"insert", "returned"} =>
          Len(ReadablePrefix(load_graph_pkl)) = Len(load_stats_pkl)
    /\ load_pc \in {"read", "stats", "assert"} => treelib = <<>>
    /\ load_pc = "insert" =>
          /\ Len(treelib) = load_i - 1
          /\ \A i \in 1..Len(treelib) :
                treelib[i] = [graph |-> load_graphs[i], bipart_stats |-> load_stats[i]]

\* a return after two different graphs were registered with different stats
C4_Witness ==
    /\ load_pc = "returned"
    /\ Len(treelib) = 2
    /\ treelib[1].graph # treelib[2].graph
    /\ treelib[1].bipart_stats # treelib[2].bipart_stats

(***************************************************************************)
(* The training loop of lines 138-177, one action per statement.           *)
(*                                                                         *)
(* A compute step (epoch, idx) leaves its gradient in the buffers:         *)
(* loss.backward() on the whole-batch path, sqrtn_forward_backward on the  *)
(* chunked path.  tr_grad is the set of compute steps whose gradient the   *)
(* buffers hold; tr_params is the list of the buffers the optimizer        *)
(* applied.                                                                *)
(***************************************************************************)
\* "%d" % n: the decimal digits of n >= 0
RECURSIVE Decimal(_)
Decimal(n) == IF n < 10 THEN <<n>> ELSE Decimal(n \div 10) \o <<n % 10>>

\* line 177 with one file name for every epoch
CkptNameFixed(epoch) == <<"epoch", ".ckpt">>

\* line 177: 'epoch-%d.ckpt' % epoch
CkptName(epoch) == <<"epoch-", Decimal(epoch), ".ckpt">>

\* line 169 with the test true at the first step of every window
WindowEndsEarly(idx, accum_grad) == idx % accum_grad = 0

\* line 169: (idx + 1) % cmd_args.accum_grad == 0
WindowEnds(idx, accum_grad) == (idx + 1) % accum_grad = 0

GradClips == {-1, 0, 1}

\* torch.save to a path: the file is created or overwritten
WriteFile(files, name, content) ==
    [x \in DOMAIN files \cup {name} |-> IF x = name THEN content ELSE files[x]]

InitTrain ==
    /\ tr_cfg \in [num_epochs : 0..MaxEpochs, epoch_save : 0..MaxSteps,
                    accum_grad : 1..MaxAccum, grad_clip : GradClips]
    /\ tr_pc = "epoch"
    /\ tr_epoch = 0
    /\ tr_idx = 0
    /\ tr_grad = {}
    /\ tr_params = <<>>
    /\ tr_files = <<>>
    /\ tr_log = <<>>
    /\ IdleSat
    /\ IdleEdge
    /\ IdleLoad
    /\ IdleEval

\* lines 140-143: the next epoch starts with optimizer.zero_grad()
TrainEpochStart ==
    /\ tr_pc = "epoch"
    /\ tr_epoch < tr_cfg.num_epochs
    /\ tr_log' = Append(tr_log, [op |-> "zero_grad", epoch |-> tr_epoch, idx |-> -1,
                                  buffer |-> tr_grad])
    /\ tr_grad' = {}
    /\ tr_idx' = 0
    /\ tr_pc' = "step"
    /\ UNCHANGED <<tr_cfg, tr_epoch, tr_params, tr_files, notTrain>>

\* line 140: range(num_epochs) is used up
TrainFinish ==
    /\ tr_pc = "epoch"
    /\ tr_epoch >= tr_cfg.num_epochs
    /\ tr_pc' = "done"
    /\ UNCHANGED <<tr_cfg, tr_epoch, tr_idx, tr_grad, tr_params, tr_files, tr_log,
                   notTrain>>

\* backward() adds the gradient of the step to what the buffers hold
Accumulate(grad, epoch, idx) == grad \cup {<<epoch, idx>>}

\* lines 145-153: the batch fits the block size, forward_train and backward
TrainComputeWhole ==
    /\ tr_pc = "step"
    /\ tr_idx < tr_cfg.epoch_save
    /\ \E fits \in BOOLEAN :
          /\ fits
          /\ tr_grad' = Accumulate(tr_grad, tr_epoch, tr_idx)
    /\ tr_log' = Append(tr_log, [op |-> "backward", epoch |-> tr_epoch, idx |-> tr_idx,
                                  buffer |-> tr_grad'])
    /\ tr_pc' = "accum"
    /\ UNCHANGED <<tr_cfg, tr_epoch, tr_idx, tr_params, tr_files, notTrain>>

\* lines 145-148, 154-161: sqrtn_forward_backward for every graph of the
\* batch, each call adding its gradient to the buffers
TrainComputeChunked ==
    /\ tr_pc = "step"
    /\ tr_idx < tr_cfg.epoch_save
    /\ \E fits \in BOOLEAN :
          /\ ~fits
          /\ tr_grad' = Accumulate(tr_grad, tr_epoch, tr_idx)
    /\ tr_log' = Append(tr_log, [op |-> "backward", epoch |-> tr_epoch, idx |-> tr_idx,
                                  buffer |-> tr_grad'])
    /\ tr_pc' = "accum"
    /\ UNCHANGED <<tr_cfg, tr_epoch, tr_idx, tr_params, tr_files, notTrain>>

\* lines 169, 174: no optimizer step at this idx
TrainNoStep ==
    /\ tr_pc = "accum"
    /\ ~WindowEnds(tr_idx, tr_cfg.accum_grad)
    /\ tr_idx' = tr_idx + 1
    /\ tr_pc' = "step"
    /\ UNCHANGED <<tr_cfg, tr_epoch, tr_grad, tr_params, tr_files, tr_log, notTrain>>

\* lines 169-171: clip_grad_norm_
TrainClip ==
    /\ tr_pc = "accum"
    /\ WindowEnds(tr_idx, tr_cfg.accum_grad)
    /\ tr_cfg.grad_clip > 0
    /\ tr_log' = Append(tr_log, [op |-> "clip", epoch |-> tr_epoch, idx |-> tr_idx,
                                  buffer |-> tr_grad])
    /\ tr_pc' = "opt"
    /\ UNCHANGED <<tr_cfg, tr_epoch, tr_idx, tr_grad, tr_params, tr_files, notTrain>>

\* lines 169-170: no clipping configured
TrainNoClip ==
    /\ tr_pc = "accum"
    /\ WindowEnds(tr_idx, tr_cfg.accum_grad)
    /\ ~(tr_cfg.grad_clip > 0)
    /\ tr_pc' = "opt"
    /\ UNCHANGED <<tr_cfg, tr_epoch, tr_idx, tr_grad, tr_params, tr_files, tr_log,
                   notTrain>>

\* line 172: optimizer.step()
TrainOptimizerStep ==
    /\ tr_pc = "opt"
    /\ tr_params' = Append(tr_params, tr_grad)
    /\ tr_log' = Append(tr_log, [op |-> "step", epoch |-> tr_epoch, idx |-> tr_idx,
                                  buffer |-> tr_grad])
    /\ tr_pc' = "reset"
    /\ UNCHANGED <<tr_cfg, tr_epoch, tr_idx, tr_grad, tr_files, notTrain>>

\* lines 173-174: optimizer.zero_grad()
TrainZeroGrad ==
    /\ tr_pc = "reset"
    /\ tr_log' = Append(tr_log, [op |-> "zero_grad", epoch |-> tr_epoch, idx |-> tr_idx,
                                  buffer |-> tr_grad])
    /\ tr_grad' = {}
    /\ tr_idx' = tr_idx + 1
    /\ tr_pc' = "step"
    /\ UNCHANGED <<tr_cfg, tr_epoch, tr_params, tr_files, notTrain>>

\* line 177: torch.save after the last step of the epoch
TrainSave ==
    /\ tr_pc = "step"
    /\ tr_idx >= tr_cfg.epoch_save
    /\ tr_files' = WriteFile(tr_files, CkptName(tr_epoch), tr_params)
    /\ tr_log' = Append(tr_log, [op |-> "save", epoch |-> tr_epoch, idx |-> tr_idx,
                                  buffer |-> tr_grad, name |-> CkptName(tr_epoch),
                                  existed |-> CkptName(tr_epoch) \in DOMAIN tr_files])
    /\ tr_epoch' = tr_epoch + 1
    /\ tr_pc' = "epoch"
    /\ UNCHANGED <<tr_cfg, tr_idx, tr_grad, tr_params, notTrain>>

NextTrain ==
    \/ TrainEpochStart
    \/ TrainFinish
    \/ TrainComputeWhole
    \/ TrainComputeChunked
    \/ TrainNoStep
    \/ TrainClip
    \/ TrainNoClip
    \/ TrainOptimizerStep
    \/ TrainZeroGrad
    \/ TrainSave

SpecTrain == InitTrain /\ [][NextTrain]_vars

(***************************************************************************)
(* Properties of the training loop.                                        *)
(***************************************************************************)
Events(op) == {k \in 1..Len(tr_log) : tr_log[k].op = op}

\* the compute steps whose handling of line 169 is over
DecidedSteps ==
    {<<e, i>> \in (0..(tr_cfg.num_epochs - 1)) \X (0..(tr_cfg.epoch_save - 1)) :
        \/ e < tr_epoch
        \/ e = tr_epoch /\ tr_pc = "step" /\ i < tr_idx
        \/ e = tr_epoch /\ tr_pc \in {"accum", "opt", "reset"} /\ i < tr_idx}

\* the last zero_grad before position k of the log
LastReset(k) ==
    CHOOSE z \in Events("zero_grad") :
        z < k /\ \A y \in Events("zero_grad") : y < k => y <= z

\* C7: inside an epoch the optimizer steps at the steps idx with
\* (idx+1) mod accum_grad = 0 and at no other; the step is preceded by the
\* clipping exactly when grad_clip > 0; the buffers are reset right after
\* the step; at the step they hold the gradients of exactly the accum_grad
\* compute steps made since the last reset.
C7_AccumulationWindows ==
    /\ \A k \in Events("step") :
          /\ (tr_log[k].idx + 1) % tr_cfg.accum_grad = 0
          /\ \A j \in Events("step") :
                (tr_log[j].epoch = tr_log[k].epoch /\ tr_log[j].idx = tr_log[k].idx)
                   => j = k
          /\ (tr_cfg.grad_clip > 0) <=> (k > 1 /\ tr_log[k - 1].op = "clip")
          /\ IF k < Len(tr_log) THEN tr_log[k + 1].op = "zero_grad"
                                ELSE tr_pc = "reset"
          /\ \E z \in Events("zero_grad") : z < k
          /\ LET since == {j \in (LastReset(k) + 1)..(k - 1) :
                              tr_log[j].op = "backward"}
             IN /\ Cardinality(since) = tr_cfg.accum_grad
                /\ tr_log[k].buffer = {<<tr_log[j].epoch, tr_log[j].idx>> : j \in since}
                /\ tr_log[k].buffer =
                      {<<tr_log[k].epoch, i>> :
                          i \in (tr_log[k].idx - tr_cfg.accum_grad + 1)..tr_log[k].idx}
    /\ \A s \in DecidedSteps :
          ((s[2] + 1) % tr_cfg.accum_grad = 0)
             <=> (\E k \in Events("step") :
                    tr_log[k].epoch = s[1] /\ tr_log[k].idx = s[2])
    /\ \A k \in Events("clip") :
          /\ tr_cfg.grad_clip > 0
          /\ IF k < Len(tr_log) THEN tr_log[k + 1].op = "step" ELSE tr_pc = "opt"

\* a run with clipping in which the second window of an epoch was applied
C7_Witness ==
    /\ tr_cfg.accum_grad = 2
    /\ tr_cfg.grad_clip > 0
    /\ tr_pc = "reset"
    /\ tr_idx = 3
    /\ Len(tr_params) = 2

\* the save events of the log, in order
Saves == SelectSeq(tr_log, LAMBDA ev : ev.op = "save")

\* the optimizer steps of the epochs up to e
StepsUpTo(e) == {k \in Events("step") : tr_log[k].epoch <= e}

\* C8: the parameter state of epoch e is saved once, as 'epoch-<e>.ckpt',
\* after all epoch_save steps of epoch e and before any step of epoch e+1;
\* the names differ, so no save overwrites a checkpoint of the run, and a
\* finished run has written num_epochs checkpoints in increasing epoch order.
C8_CheckpointPerEpoch ==
    /\ Len(Saves) = tr_epoch
    /\ tr_pc = "done" => Len(Saves) = tr_cfg.num_epochs
    /\ Cardinality(DOMAIN tr_files) = Len(Saves)
    /\ \A n \in 1..Len(Saves) :
          /\ Saves[n].epoch = n - 1
          /\ n - 1 < 10 => Saves[n].name = <<"epoch-", <<n - 1>>, ".ckpt">>
          /\ ~Saves[n].existed
          /\ Saves[n].name \in DOMAIN tr_files
          /\ Len(tr_files[Saves[n].name]) = Cardinality(StepsUpTo(n - 1))
          /\ \A i \in 1..Len(tr_files[Saves[n].name]) :
                tr_files[Saves[n].name][i] = tr_params[i]
    /\ \A k \in Events("save") :
          /\ Cardinality({j \in Events("backward") :
                             j < k /\ tr_log[j].epoch = tr_log[k].epoch})
                = tr_cfg.epoch_save
          /\ \A j \in 1..Len(tr_log) :
                /\ (j < k => tr_log[j].epoch <= tr_log[k].epoch)
                /\ (j > k => tr_log[j].epoch > tr_log[k].epoch)

\* a finished run of two epochs with optimizer steps in both
C8_Witness ==
    /\ tr_pc = "done"
    /\ tr_cfg.num_epochs = 2
    /\ Len(Saves) = 2
    /\ Len(tr_files[Saves[1].name]) >= 1
    /\ Len(tr_files[Saves[2].name]) > Len(tr_files[Saves[1].name])

\* the gradients the optimizer steps before position k of the log applied
AppliedBefore(k) ==
    UNION {tr_log[j].buffer : j \in {x \in Events("step") : x < k}}

\* C10: the gradient of every compute step is part of exactly one optimizer
\* step; no zero_grad (after a step or at the start of an epoch) clears a
\* gradient no optimizer step has applied; none is left in the buffers when
\* the run ends.
C10_NoGradientLost ==
    /\ \A k \in Events("zero_grad") : tr_log[k].buffer \subseteq AppliedBefore(k)
    /\ \A k \in Events("backward") :
          Cardinality({j \in Events("step") :
                         <<tr_log[k].epoch, tr_log[k].idx>> \in tr_log[j].buffer}) <= 1
    /\ tr_pc = "done" =>
          /\ tr_grad \subseteq AppliedBefore(Len(tr_log) + 1)
          /\ \A k \in Events("backward") :
                Cardinality({j \in Events("step") :
                               <<tr_log[k].epoch, tr_log[k].idx>> \in tr_log[j].buffer}) = 1

(***************************************************************************)
(* The evaluation loop of lines 112-135.                                   *)
(*                                                                         *)
(* The model of line 125 is outside this file: its pred_edges is a list of *)
(* (literal, clause) pairs with the literal in range(stat[0]) and the      *)
(* clause in col_range = (0, stat[1]).  One action is one turn of the loop *)
(* of line 122; an exception ends the program.                             *)
(***************************************************************************)
\* (n, m) of a test graph: n = 2*num_var literal nodes, m clause nodes
EvalStats == {<<2, 1>>, <<2, 2>>}

RECURSIVE add_nodes_from(_, _)
add_nodes_from(G, ns) ==
    IF ns = <<>> THEN G ELSE add_nodes_from(add_node(G, Head(ns)), Tail(ns))

\* lists of at most MaxEdges (literal, clause) pairs for the stats (n, m)
PairLists(stat) == SeqsUpTo((0..(stat[1] - 1)) \X (0..(stat[2] - 1)), MaxEdges)

\* line 126: the clause index is moved behind the literal indices
ShiftPred(model_edges, stat) ==
    [i \in 1..Len(model_edges) |-> <<model_edges[i][1], model_edges[i][2] + stat[1]>>]

\* a test graph: the n + m nodes, then the edges literal - clause
TestGraph(stat, pairs) ==
    add_edges_from(add_nodes_from(EmptyGraph, [i \in 1..(stat[1] + stat[2]) |-> i - 1]),
                   ShiftPred(pairs, stat))

\* 'gen_%d.cnf' % g_idx
GenName(g_idx) == <<"gen_", Decimal(g_idx), ".cnf">>

\* line 129: a / b of two list lengths; b = 0 raises ZeroDivisionError
Ratio(a, b) == IF b = 0 THEN [ok |-> FALSE] ELSE [ok |-> TRUE, num |-> a, den |-> b]

\* lines 123-134: one turn of the loop on the graph g with stats stat
EvalTurn(g, stat, model_edges, g_idx) ==
    LET pred_edges == ShiftPred(model_edges, stat)
        true_edges == get_ordered_edges(g, 0)
        common == Range(pred_edges) \cap Range(true_edges)
        precision == Ratio(Cardinality(common), Len(pred_edges))
        recall == Ratio(Cardinality(common), Len(true_edges))
        seen == [pred_edges |-> pred_edges, true_edges |-> true_edges]
    IN IF ~precision.ok \/ ~recall.ok
       THEN [status |-> "ZeroDivisionError", seen |-> seen]
       ELSE LET pred_g == add_edges_from(EmptyGraph, pred_edges)
                cnf == LCG_to_sat(pred_g, stat[1] \div 2)
            IN IF cnf.status = "AssertionError"
               THEN [status |-> "AssertionError", seen |-> seen]
               ELSE [status |-> "written", seen |-> seen,
                     precision |-> precision, recall |-> recall,
                     out_file |-> GenName(g_idx), cnf |-> cnf]

InitEval ==
    /\ ev_left \in 0..MaxTest
    /\ ev_g_idx = 0
    /\ ev_files = <<>>
    /\ ev_last = [status |-> "none"]
    /\ ev_pc = "loop"
    /\ IdleSat
    /\ IdleEdge
    /\ IdleLoad
    /\ IdleTrain

\* lines 122-134
EvalGraph ==
    /\ ev_pc = "loop"
    /\ ev_left > 0
    /\ \E stat \in EvalStats :
       \E true_pairs \in PairLists(stat), model_edges \in PairLists(stat) :
          LET r == EvalTurn(TestGraph(stat, true_pairs), stat, model_edges, ev_g_idx)
          IN /\ ev_last' = r
             /\ IF r.status = "written"
                THEN /\ ev_files' = Append(ev_files, r.out_file)
                     /\ ev_g_idx' = ev_g_idx + 1
                     /\ ev_left' = ev_left - 1
                     /\ ev_pc' = "loop"
                ELSE /\ ev_pc' = r.status
                     /\ UNCHANGED <<ev_files, ev_g_idx, ev_left>>
    /\ UNCHANGED notEval

\* line 135: sys.exit() after the last graph
EvalExit ==
    /\ ev_pc = "loop"
    /\ ev_left = 0
    /\ ev_pc' = "exited"
    /\ UNCHANGED <<ev_left, ev_g_idx, ev_files, ev_last, notEval>>

NextEval == EvalGraph \/ EvalExit

SpecEval == InitEval /\ [][NextEval]_vars

(***************************************************************************)
(* Properties of the evaluation loop.                                      *)
(***************************************************************************)
\* C9: when the predicted or the ground-truth edge list of an evaluated
\* graph is empty, no division by zero ends the program: the CNF file of the
\* graph is written and the loop goes on.
C9_EmptyListsHandled ==
    (/\ ev_last.status # "none"
     /\ \/ ev_last.seen.pred_edges = <<>>
        \/ ev_last.seen.true_edges = <<>>)
    => /\ ev_pc # "ZeroDivisionError"
       /\ ev_last.status = "written"
       /\ ev_files # <<>>
       /\ ev_files[Len(ev_files)] = ev_last.out_file

====
